---- MODULE Spec2Model ----
(***************************************************************************)
(* Session controller (src/src/debugSession.ts, class DebugSession) and    *)
(* its transport (src/src/debugServer.ts, class DebugServer) of the        *)
(* LangGraph visualizer, as one state machine.                             *)
(*                                                                         *)
(* The controller runs on a single-threaded event loop: a handler runs to  *)
(* its next `await` without interleaving.  start() and stop() await the    *)
(* transport (listen / close callbacks), so each is split into the step    *)
(* before the await and the step that runs when the callback fires; every  *)
(* other operation and every inbound frame is one atomic step.             *)
(***************************************************************************)
EXTENDS Integers, Sequences, FiniteSets, TLC

\* ------------------------------------------------------------------ bounds

\* The model keeps the last MaxLog entries of the execution log.
MaxLog == 1
\* Longest timeCapsule array a graph_end payload carries.
MaxCapsule == 2
\* stop() calls that may be awaiting the transport at the same time.
MaxPendingStops == 2
\* Latest reading of the clock.
MaxClock == 3

\* ------------------------------------------------------------------ domains

NULL == "null"

\* An absent number (undefined / null where the code expects a number).
NoNumber == -1

\* JavaScript truthiness of a string-or-absent value and of a number-or-absent value.
Truthy(v) == v \notin {NULL, ""}
TruthyNum(n) == n \notin {NoNumber, 0}

NodeIds == {"a"}
Values == {"v"}
Conns == {1, 2}
ServerIds == {1, 2}
\* How many consecutive ports, from the preferred one, another process holds.
BusyCounts == {0, 1}

PreferredPort == 9876
DefaultPythonPath == "python"

ExecutionStates == {"stopped", "running", "paused", "stepping"}

\* ------------------------------------------------------------------ state

VARIABLES
    state,            \* DebugSession.state : DebugSessionState
    terminal,         \* DebugSession.terminal (0 = null, 1 = a terminal)
    runtimeFilePath,  \* DebugSession.runtimeFilePath
    wrapperFilePath,  \* DebugSession.wrapperFilePath
    server,           \* DebugServer.server (0 = null, else a server id)
    wss,              \* DebugServer.wss    (0 = null, else a server id)
    client,           \* DebugServer.client (0 = null, else a connection)
    port,             \* DebugServer.port
    isRunning,        \* DebugServer.isRunning
    wsModule,         \* module-level WebSocketServer / wsLoadAttempted
    srvSt,            \* per http.Server object: free, binding, listening, closing
    boundTo,          \* per http.Server object: the port its socket holds (0 = none)
    conn,             \* per connection: readyState and the server it came through
    pendingStops,     \* stop() calls awaiting server.close()
    lastSend,         \* the last frame written to a peer, and to which
    notice,           \* the last vscode.window.show*Message
    published,        \* subscribers of onStateChange were handed the state as it is now
    now               \* Date.now()

sessVars == <<state, terminal, runtimeFilePath, wrapperFilePath>>
srvVars == <<server, wss, client, port, isRunning, wsModule>>
envVars == <<srvSt, boundTo, conn, pendingStops, now>>
obsVars == <<lastSend, notice, published>>
vars == <<state, terminal, runtimeFilePath, wrapperFilePath, server, wss, client,
          port, isRunning, wsModule, srvSt, boundTo, conn, pendingStops, lastSend,
          notice,
          published, now>>

\* ------------------------------------------------------------------ session state

\* nodeExecutions is a Map keyed by node id: the set of its records, at most
\* one per nodeId.  NoExecutions is the Map after clear().
NoExecutions == {}

\* nodeExecutions.has(id), .get(id) and .set(id, rec)
hasExecution(s, id) == \E r \in s.nodeExecutions : r.nodeId = id
getExecution(s, id) == CHOOSE r \in s.nodeExecutions : r.nodeId = id
setExecution(s, rec) ==
    [s EXCEPT !.nodeExecutions = {r \in @ : r.nodeId # rec.nodeId} \cup {rec}]

createInitialState ==
    [isActive |-> FALSE,
     executionState |-> "stopped",
     currentNode |-> NULL,
     nodeExecutions |-> NoExecutions,
     executionLog |-> <<>>,
     currentState |-> NULL,
     initialInput |-> NULL,
     finalOutput |-> NULL,
     breakpoints |-> {},
     startTime |-> NoNumber,
     port |-> 0,
     pythonPath |-> DefaultPythonPath,
     timeCapsule |-> <<>>,
     timeCapsuleIndex |-> 0,
     timeCapsuleActive |-> FALSE]

\* The entries of a log the model keeps: its last MaxLog.
lastEntries(log) ==
    IF Len(log) > MaxLog THEN SubSeq(log, Len(log) - MaxLog + 1, Len(log)) ELSE log

\* addLogEntry pushes one entry.  The model keeps the entry's type; its
\* message is passed as the tuple of its literal text and interpolated parts
\* and, like timestamp and data, is not stored: no handler reads them.
addLogEntry(s, type, message) ==
    [s EXCEPT !.executionLog = lastEntries(Append(@, [type |-> type]))]

\* ------------------------------------------------------------------ transport

\* DebugServer.connected: a tracked client whose readyState is OPEN.
connected == client # 0 /\ conn[client].st = "open"

\* DebugServer.send's return value.
sendResult == connected

\* Nothing was written to any peer yet.
NoFrame == [command |-> NULL, data |-> NULL, to |-> 0]

\* send that checks for a tracked client and not for its readyState.
sendToTracked(command, data) ==
    IF client # 0
    THEN lastSend' = [command |-> command, data |-> data, to |-> client]
    ELSE UNCHANGED lastSend

\* DebugServer.send: the frame written (timestamp left out), or nothing.
send(command, data) ==
    IF connected
    THEN lastSend' = [command |-> command, data |-> data, to |-> client]
    ELSE UNCHANGED lastSend

\* ------------------------------------------------------------------ init

\* runtimeFilePath / wrapperFilePath = null
NoPath == <<>>

Init ==
    /\ state = createInitialState
    /\ terminal = 0
    /\ runtimeFilePath = NoPath
    /\ wrapperFilePath = NoPath
    /\ server = 0
    /\ wss = 0
    /\ client = 0
    /\ port = 0
    /\ isRunning = FALSE
    /\ wsModule = "untried"
    /\ srvSt = [s \in ServerIds |-> "free"]
    /\ boundTo = [s \in ServerIds |-> 0]
    /\ conn = [c \in Conns |-> [st |-> "idle", srv |-> 0]]
    /\ pendingStops = 0
    /\ lastSend = NoFrame
    /\ notice = NULL
    /\ published = FALSE
    /\ now = 1

\* ------------------------------------------------------------------ pause / resume / step

\* pause() that relays the command and leaves executionState to the peer's answer.
pauseWithoutTransition ==
    /\ IF state.executionState = "running"
       THEN /\ send("pause", NULL)
            /\ UNCHANGED <<state, published>>
       ELSE UNCHANGED <<state, lastSend, published>>
    /\ UNCHANGED <<terminal, runtimeFilePath, wrapperFilePath, srvVars, envVars, notice>>

\* pause() without its check of the source state.
pauseUnguarded ==
    /\ send("pause", NULL)
    /\ state' = addLogEntry([state EXCEPT !.executionState = "paused"],
                            "info", <<"Execution paused">>)
    /\ published' = TRUE
    /\ UNCHANGED <<terminal, runtimeFilePath, wrapperFilePath, srvVars, envVars, notice>>

pause ==
    /\ IF state.executionState = "running"
       THEN /\ send("pause", NULL)
            /\ state' = addLogEntry([state EXCEPT !.executionState = "paused"],
                                    "info", <<"Execution paused">>)
            /\ published' = TRUE
       ELSE UNCHANGED <<state, lastSend, published>>
    /\ UNCHANGED <<terminal, runtimeFilePath, wrapperFilePath, srvVars, envVars, notice>>

resume ==
    /\ IF state.executionState = "paused"
       THEN /\ send("resume", NULL)
            /\ state' = addLogEntry([state EXCEPT !.executionState = "running"],
                                    "info", <<"Execution resumed">>)
            /\ published' = TRUE
       ELSE UNCHANGED <<state, lastSend, published>>
    /\ UNCHANGED <<terminal, runtimeFilePath, wrapperFilePath, srvVars, envVars, notice>>

\* step() that leaves the session running instead of stepping.
stepToRunning ==
    /\ IF state.executionState = "paused"
       THEN /\ send("step", NULL)
            /\ state' = addLogEntry([state EXCEPT !.executionState = "running"],
                                    "info", <<"Stepping to next node">>)
            /\ published' = TRUE
       ELSE UNCHANGED <<state, lastSend, published>>
    /\ UNCHANGED <<terminal, runtimeFilePath, wrapperFilePath, srvVars, envVars, notice>>

step ==
    /\ IF state.executionState = "paused"
       THEN /\ send("step", NULL)
            /\ state' = addLogEntry([state EXCEPT !.executionState = "stepping"],
                                    "info", <<"Stepping to next node">>)
            /\ published' = TRUE
       ELSE UNCHANGED <<state, lastSend, published>>
    /\ UNCHANGED <<terminal, runtimeFilePath, wrapperFilePath, srvVars, envVars, notice>>

\* ------------------------------------------------------------------ breakpoints

\* toggleBreakpoint that keeps the local set as it was when the relay fails.
toggleBreakpointWhenRelayed(nodeId) ==
    /\ IF nodeId \in state.breakpoints
       THEN /\ send("remove_breakpoint", nodeId)
            /\ state' = addLogEntry(
                             [state EXCEPT !.breakpoints =
                                               IF connected THEN @ \ {nodeId} ELSE @],
                             "info", <<"Breakpoint removed from", nodeId>>)
       ELSE /\ send("set_breakpoint", nodeId)
            /\ state' = addLogEntry(
                             [state EXCEPT !.breakpoints =
                                               IF connected THEN @ \cup {nodeId} ELSE @],
                             "info", <<"Breakpoint set on", nodeId>>)
    /\ published' = FALSE
    /\ UNCHANGED <<terminal, runtimeFilePath, wrapperFilePath, srvVars, envVars, notice>>

\* The value toggleBreakpoint(nodeId) returns: false from the branch that
\* deletes, true from the branch that adds.
toggleBreakpointReturns(nodeId) == nodeId \notin state.breakpoints

toggleBreakpoint(nodeId) ==
    /\ IF nodeId \in state.breakpoints
       THEN /\ send("remove_breakpoint", nodeId)
            /\ state' = addLogEntry([state EXCEPT !.breakpoints = @ \ {nodeId}],
                                    "info", <<"Breakpoint removed from", nodeId>>)
       ELSE /\ send("set_breakpoint", nodeId)
            /\ state' = addLogEntry([state EXCEPT !.breakpoints = @ \cup {nodeId}],
                                    "info", <<"Breakpoint set on", nodeId>>)
    /\ published' = FALSE
    /\ UNCHANGED <<terminal, runtimeFilePath, wrapperFilePath, srvVars, envVars, notice>>

\* ------------------------------------------------------------------ Time Capsule

\* updateTimeCapsuleState's `if (step)`: there is a step at the current index.
hasStep(s) == s.timeCapsuleIndex + 1 \in DOMAIN s.timeCapsule

\* updateTimeCapsuleState that shows the step's node id as stored.
updateTimeCapsuleStateRaw(s) ==
    IF hasStep(s)
    THEN LET stp == s.timeCapsule[s.timeCapsuleIndex + 1]
         IN addLogEntry([s EXCEPT !.currentNode = stp.node,
                                  !.currentState = stp.state_after],
                        "info",
                        <<"Time Capsule: Step", ToString(stp.step + 1),
                          ToString(Len(s.timeCapsule)), stp.node>>)
    ELSE s

\* updateTimeCapsuleState: the projection from the step at the current index.
\* It logs and publishes only under `if (step)`.
updateTimeCapsuleState(s) ==
    IF hasStep(s)
    THEN LET stp == s.timeCapsule[s.timeCapsuleIndex + 1]
         IN addLogEntry([s EXCEPT !.currentNode =
                                      IF stp.node = "__start__" THEN "START"
                                      ELSE IF stp.node = "__end__" THEN "END"
                                      ELSE stp.node,
                                  !.currentState = stp.state_after],
                        "info",
                        <<"Time Capsule: Step", ToString(stp.step + 1),
                          ToString(Len(s.timeCapsule)), stp.node>>)
    ELSE s

\* activateTimeCapsule that acts only while no run is going on.
activateTimeCapsuleWhenStopped ==
    /\ IF Len(state.timeCapsule) = 0 \/ state.executionState # "stopped"
       THEN /\ notice' = "No Time Capsule data available. Run the graph first."
            /\ UNCHANGED <<state, published>>
       ELSE /\ state' = addLogEntry([state EXCEPT !.timeCapsuleActive = TRUE,
                                                  !.timeCapsuleIndex = 0],
                                    "info", <<"Time Capsule activated">>)
            /\ published' = TRUE
            /\ UNCHANGED notice
    /\ UNCHANGED <<terminal, runtimeFilePath, wrapperFilePath, srvVars, envVars, lastSend>>

activateTimeCapsule ==
    /\ IF Len(state.timeCapsule) = 0
       THEN /\ notice' = "No Time Capsule data available. Run the graph first."
            /\ UNCHANGED <<state, published>>
       ELSE /\ state' = addLogEntry([state EXCEPT !.timeCapsuleActive = TRUE,
                                                  !.timeCapsuleIndex = 0],
                                    "info", <<"Time Capsule activated">>)
            /\ published' = TRUE
            /\ UNCHANGED notice
    /\ UNCHANGED <<terminal, runtimeFilePath, wrapperFilePath, srvVars, envVars, lastSend>>

\* deactivateTimeCapsule() that also discards the stored steps.
deactivateDroppingHistory ==
    /\ state' = addLogEntry([state EXCEPT !.timeCapsuleActive = FALSE,
                                          !.currentNode = NULL,
                                          !.timeCapsule = <<>>,
                                          !.timeCapsuleIndex = 0],
                            "info", <<"Time Capsule deactivated">>)
    /\ published' = TRUE
    /\ UNCHANGED <<terminal, runtimeFilePath, wrapperFilePath, srvVars, envVars, lastSend, notice>>

deactivateTimeCapsule ==
    /\ state' = addLogEntry([state EXCEPT !.timeCapsuleActive = FALSE,
                                          !.currentNode = NULL],
                            "info", <<"Time Capsule deactivated">>)
    /\ published' = TRUE
    /\ UNCHANGED <<terminal, runtimeFilePath, wrapperFilePath, srvVars, envVars, lastSend, notice>>

\* timeCapsuleNext() that wraps from the last step to the first.
timeCapsuleNextWrapping ==
    /\ IF ~state.timeCapsuleActive \/ Len(state.timeCapsule) = 0
       THEN UNCHANGED <<state, published>>
       ELSE /\ state' = updateTimeCapsuleState(
                             [state EXCEPT !.timeCapsuleIndex =
                                               (@ + 1) % Len(state.timeCapsule)])
            /\ published' = hasStep(state')
    /\ UNCHANGED <<terminal, runtimeFilePath, wrapperFilePath, srvVars, envVars, lastSend, notice>>

timeCapsuleNext ==
    /\ IF ~state.timeCapsuleActive \/ Len(state.timeCapsule) = 0
       THEN UNCHANGED <<state, published>>
       ELSE IF state.timeCapsuleIndex < Len(state.timeCapsule) - 1
            THEN /\ state' = updateTimeCapsuleState(
                                  [state EXCEPT !.timeCapsuleIndex = @ + 1])
                 /\ published' = hasStep(state')
            ELSE UNCHANGED <<state, published>>
    /\ UNCHANGED <<terminal, runtimeFilePath, wrapperFilePath, srvVars, envVars, lastSend, notice>>

timeCapsulePrevious ==
    /\ IF ~state.timeCapsuleActive \/ Len(state.timeCapsule) = 0
       THEN UNCHANGED <<state, published>>
       ELSE IF state.timeCapsuleIndex > 0
            THEN /\ state' = updateTimeCapsuleState(
                                  [state EXCEPT !.timeCapsuleIndex = @ - 1])
                 /\ published' = hasStep(state')
            ELSE UNCHANGED <<state, published>>
    /\ UNCHANGED <<terminal, runtimeFilePath, wrapperFilePath, srvVars, envVars, lastSend, notice>>

\* getCurrentTimeCapsuleStep returning null.
NoStep == [step |-> NoNumber, node |-> NULL, state_after |-> NULL]

\* getCurrentTimeCapsuleStep
getCurrentTimeCapsuleStep ==
    IF state.timeCapsuleActive /\ Len(state.timeCapsule) > 0
    THEN state.timeCapsule[state.timeCapsuleIndex + 1]
    ELSE NoStep

isAtFirstStep == state.timeCapsuleIndex = 0

isAtLastStep == state.timeCapsuleIndex >= Len(state.timeCapsule) - 1

\* ------------------------------------------------------------------ inbound events

\* The data of a frame with every optional field absent.
NoData ==
    [nodeId |-> NULL, nodeName |-> NULL, input |-> NULL, output |-> NULL,
     stateBefore |-> NULL, stateAfter |-> NULL, duration |-> NoNumber,
     error |-> NULL, state |-> NULL, data |-> NULL, node |-> NULL,
     hasTimeCapsule |-> FALSE, timeCapsule |-> <<>>]

handleNodeStart(s, data) ==
    LET nodeExec == [nodeId |-> data.nodeId,
                     nodeName |-> data.nodeName,
                     status |-> "running",
                     input |-> data.input,
                     output |-> NULL,
                     stateBefore |-> data.stateBefore,
                     stateAfter |-> NULL,
                     startTime |-> now,
                     endTime |-> NoNumber,
                     duration |-> NoNumber,
                     error |-> NULL]
    IN addLogEntry([setExecution(s, nodeExec) EXCEPT !.currentNode = data.nodeId],
                   "node_start", <<"Node started", data.nodeName>>)

\* Date.now() moves on between two handlers.
tick ==
    /\ now < MaxClock
    /\ now' = now + 1
    /\ UNCHANGED <<sessVars, srvVars, srvSt, boundTo, conn, pendingStops, obsVars>>

\* handleNodeEnd's record update that reports an error only when the node
\* produced no output.
endedExecutionPreferringOutput(old, data) ==
    LET endTime == now
        duration == IF TruthyNum(data.duration)
                    THEN data.duration
                    ELSE endTime - (IF TruthyNum(old.startTime)
                                    THEN old.startTime ELSE endTime)
    IN [old EXCEPT !.status = IF Truthy(data.error) /\ ~Truthy(data.output)
                              THEN "error" ELSE "completed",
                   !.output = data.output,
                   !.stateAfter = data.stateAfter,
                   !.endTime = endTime,
                   !.duration = duration,
                   !.error = data.error]

\* The record handleNodeEnd leaves for a node that has one.
endedExecution(old, data) ==
    LET endTime == now
        duration == IF TruthyNum(data.duration)
                    THEN data.duration
                    ELSE endTime - (IF TruthyNum(old.startTime)
                                    THEN old.startTime ELSE endTime)
    IN [old EXCEPT !.status = IF Truthy(data.error) THEN "error" ELSE "completed",
                   !.output = data.output,
                   !.stateAfter = data.stateAfter,
                   !.endTime = endTime,
                   !.duration = duration,
                   !.error = data.error]

\* handleNodeEnd that clears currentNode whichever node it shows.
handleNodeEndClearingCurrent(s, data) ==
    LET s1 == IF hasExecution(s, data.nodeId)
              THEN LET nodeExec == endedExecution(getExecution(s, data.nodeId), data)
                   IN addLogEntry(
                          [setExecution(s, nodeExec) EXCEPT !.currentState = data.stateAfter],
                          "node_end",
                          <<"Node completed", data.nodeName, ToString(nodeExec.duration)>>)
              ELSE s
    IN [s1 EXCEPT !.currentNode = NULL]

\* handleNodeEnd
handleNodeEnd(s, data) ==
    LET s1 == IF hasExecution(s, data.nodeId)
              THEN LET nodeExec == endedExecution(getExecution(s, data.nodeId), data)
                   IN addLogEntry(
                          [setExecution(s, nodeExec) EXCEPT !.currentState = data.stateAfter],
                          "node_end",
                          <<"Node completed", data.nodeName, ToString(nodeExec.duration)>>)
              ELSE s
    IN IF s1.currentNode = data.nodeId
       THEN [s1 EXCEPT !.currentNode = NULL]
       ELSE s1

\* case 'graph_start'; the variant also drops the stored history.
handleGraphStartDroppingHistory(s) ==
    addLogEntry([s EXCEPT !.executionState = "running",
                          !.nodeExecutions = NoExecutions,
                          !.timeCapsule = <<>>,
                          !.timeCapsuleIndex = 0,
                          !.timeCapsuleActive = FALSE],
                "info", <<"Graph execution started">>)

\* case 'graph_start' that leaves an empty log behind.
handleGraphStartClearingLog(s) ==
    [s EXCEPT !.executionState = "running",
              !.nodeExecutions = NoExecutions,
              !.executionLog = <<>>]

handleGraphStart(s) ==
    addLogEntry([s EXCEPT !.executionState = "running",
                          !.nodeExecutions = NoExecutions],
                "info", <<"Graph execution started">>)

\* case 'graph_end'; the first variant replaces the history without
\* resetting the index, the second without leaving replay mode.
handleGraphEndKeepingIndex(s, data) ==
    LET s1 == [s EXCEPT !.executionState = "stopped", !.finalOutput = data.output]
        s2 == IF data.hasTimeCapsule
              THEN addLogEntry([s1 EXCEPT !.timeCapsule = data.timeCapsule,
                                          !.timeCapsuleActive = FALSE],
                               "info",
                               <<"Time Capsule recorded", ToString(Len(data.timeCapsule))>>)
              ELSE s1
    IN IF Truthy(data.error)
       THEN addLogEntry(s2, "error", <<"Graph execution failed", data.error>>)
       ELSE addLogEntry(s2, "info", <<"Graph execution completed">>)

handleGraphEndKeepingActive(s, data) ==
    LET s1 == [s EXCEPT !.executionState = "stopped", !.finalOutput = data.output]
        s2 == IF data.hasTimeCapsule
              THEN addLogEntry([s1 EXCEPT !.timeCapsule = data.timeCapsule,
                                          !.timeCapsuleIndex = 0],
                               "info",
                               <<"Time Capsule recorded", ToString(Len(data.timeCapsule))>>)
              ELSE s1
    IN IF Truthy(data.error)
       THEN addLogEntry(s2, "error", <<"Graph execution failed", data.error>>)
       ELSE addLogEntry(s2, "info", <<"Graph execution completed">>)

\* case 'graph_end' that stays in the prior execution state when the remote
\* reports an error.
handleGraphEndFailingOnError(s, data) ==
    LET s1 == [s EXCEPT !.executionState =
                            IF Truthy(data.error) THEN @ ELSE "stopped",
                        !.finalOutput = data.output]
        s2 == IF data.hasTimeCapsule
              THEN addLogEntry([s1 EXCEPT !.timeCapsule = data.timeCapsule,
                                          !.timeCapsuleIndex = 0,
                                          !.timeCapsuleActive = FALSE],
                               "info",
                               <<"Time Capsule recorded", ToString(Len(data.timeCapsule))>>)
              ELSE s1
    IN IF Truthy(data.error)
       THEN addLogEntry(s2, "error", <<"Graph execution failed", data.error>>)
       ELSE addLogEntry(s2, "info", <<"Graph execution completed">>)

handleGraphEnd(s, data) ==
    LET s1 == [s EXCEPT !.executionState = "stopped", !.finalOutput = data.output]
        s2 == IF data.hasTimeCapsule
              THEN addLogEntry([s1 EXCEPT !.timeCapsule = data.timeCapsule,
                                          !.timeCapsuleIndex = 0,
                                          !.timeCapsuleActive = FALSE],
                               "info",
                               <<"Time Capsule recorded", ToString(Len(data.timeCapsule))>>)
              ELSE s1
    IN IF Truthy(data.error)
       THEN addLogEntry(s2, "error", <<"Graph execution failed", data.error>>)
       ELSE addLogEntry(s2, "info", <<"Graph execution completed">>)

\* DebugSession.handleMessage: the session state after one inbound event.
handleMessage(s, type, data) ==
    CASE type = "connected" ->
            addLogEntry(s, "info", <<"Python runtime connected">>)
      [] type = "graph_start" -> handleGraphStart(s)
      [] type = "graph_end" -> handleGraphEnd(s, data)
      [] type = "node_start" -> handleNodeStart(s, data)
      [] type = "node_end" -> handleNodeEnd(s, data)
      [] type = "state_update" ->
            addLogEntry([s EXCEPT !.currentState = data.state],
                        "state_update", <<"State updated">>)
      [] type = "input" ->
            addLogEntry([s EXCEPT !.initialInput = data.data],
                        "input", <<"Input received">>)
      [] type = "output" ->
            addLogEntry([s EXCEPT !.finalOutput = data.data],
                        "output", <<"Output produced">>)
      [] type = "paused" ->
            addLogEntry([s EXCEPT !.executionState = "paused"],
                        "info",
                        <<"Execution paused at",
                          IF Truthy(data.node) THEN data.node ELSE "unknown">>)
      [] type = "resumed" ->
            addLogEntry([s EXCEPT !.executionState = "running"],
                        "info", <<"Execution resumed">>)
      [] type = "breakpoint_hit" ->
            addLogEntry([s EXCEPT !.executionState = "paused"],
                        "info", <<"Breakpoint hit at", data.node>>)
      [] type = "error" ->
            addLogEntry(s, "error",
                        <<IF Truthy(data.error) THEN data.error ELSE "Unknown error">>)
      [] type = "stopped" ->
            addLogEntry([s EXCEPT !.executionState = "stopped"],
                        "info", <<"Execution stopped">>)
      [] OTHER -> s

\* The cases of handleMessage that end with _onStateChange.fire(this.state)
\* (node_start and node_end through their handlers), and those that change
\* the state and return without it.
FiringTypes == {"graph_start", "graph_end", "node_start", "node_end", "state_update",
                "paused", "resumed", "breakpoint_hit", "stopped"}
SilentTypes == {"connected", "input", "output", "error"}

\* ws.on('message') of connection c: a frame that parses is handed to the
\* session; the handler is registered per connection, so it runs for any
\* connection still receiving (open, or closing on this side's close()),
\* tracked as client or not.
receive(c, type, data) ==
    /\ conn[c].st \in {"open", "closing"}
    /\ state' = handleMessage(state, type, data)
    /\ published' = IF type \in FiringTypes THEN TRUE
                    ELSE IF type \in SilentTypes THEN FALSE
                    ELSE published
    /\ UNCHANGED <<terminal, runtimeFilePath, wrapperFilePath, srvVars, envVars, lastSend, notice>>

\* A message handler that gives up the peer whose frame does not parse.
receiveMalformedDroppingPeer(c) ==
    /\ conn[c].st \in {"open", "closing"}
    /\ client' = 0
    /\ UNCHANGED <<sessVars, server, wss, port, isRunning, wsModule, envVars, obsVars>>

\* ws.on('message') with a frame JSON.parse rejects: caught and logged to the console.
receiveMalformed(c) ==
    /\ conn[c].st \in {"open", "closing"}
    /\ UNCHANGED <<sessVars, srvVars, envVars, obsVars>>

\* handleConnected
handleConnected(s) == addLogEntry(s, "info", <<"Python runtime connected">>)

\* handleDisconnected that also ends the session.
handleDisconnectedEndingSession(s) ==
    IF s.isActive
    THEN [addLogEntry(s, "info", <<"Python runtime disconnected">>)
              EXCEPT !.executionState = "stopped", !.isActive = FALSE]
    ELSE s

\* handleDisconnected without its isActive check.
handleDisconnectedUnguarded(s) ==
    [addLogEntry(s, "info", <<"Python runtime disconnected">>)
         EXCEPT !.executionState = "stopped"]

\* handleDisconnected
handleDisconnected(s) ==
    IF s.isActive
    THEN [addLogEntry(s, "info", <<"Python runtime disconnected">>)
              EXCEPT !.executionState = "stopped"]
    ELSE s

\* A connection handler that keeps an already tracked peer.
connectionKeepingFirst(c, srv) ==
    /\ srvSt[srv] = "listening"
    /\ conn[c].st = "idle"
    /\ conn' = [conn EXCEPT ![c] = [st |-> "open", srv |-> srv]]
    /\ client' = IF client = 0 THEN c ELSE client
    /\ state' = handleConnected(state)
    /\ notice' = "LangGraph debug session connected!"
    /\ published' = TRUE
    /\ UNCHANGED <<terminal, runtimeFilePath, wrapperFilePath, server, wss, port,
                   isRunning, wsModule, srvSt, boundTo, pendingStops, now,
                   lastSend>>

\* wss.on('connection'): a peer connects through listening server srv.
connection(c, srv) ==
    /\ srvSt[srv] = "listening"
    /\ conn[c].st = "idle"
    /\ conn' = [conn EXCEPT ![c] = [st |-> "open", srv |-> srv]]
    /\ client' = c
    /\ state' = handleConnected(state)
    /\ notice' = "LangGraph debug session connected!"
    /\ published' = TRUE
    /\ UNCHANGED <<terminal, runtimeFilePath, wrapperFilePath, server, wss, port,
                   isRunning, wsModule, srvSt, boundTo, pendingStops, now,
                   lastSend>>

\* The peer's close frame arrives on connection c: readyState leaves OPEN
\* before the 'close' event is emitted, and no message follows a close frame.
peerClosing(c) ==
    /\ conn[c].st = "open"
    /\ conn' = [conn EXCEPT ![c].st = "closingPeer"]
    /\ UNCHANGED <<sessVars, srvVars, srvSt, boundTo, pendingStops, now, obsVars>>

\* ws.on('close') of connection c.
wsClose(c) ==
    /\ conn[c].st # "idle"
    /\ conn' = [conn EXCEPT ![c] = [st |-> "idle", srv |-> 0]]
    /\ client' = 0
    /\ state' = handleDisconnected(state)
    /\ published' = IF state.isActive THEN TRUE ELSE published
    /\ UNCHANGED <<terminal, runtimeFilePath, wrapperFilePath, server, wss, port,
                   isRunning, wsModule, srvSt, boundTo, pendingStops, now,
                   lastSend, notice>>

\* ------------------------------------------------------------------ start

\* tryPort: server.listen(port, cb) registers cb with once('listening') and
\* nothing removes it when the bind fails, so after `busy` collisions the
\* callbacks of every attempt run, in the order they were registered, when
\* the last attempt binds.  The socket is bound to the first free port; the
\* promise is resolved by the first callback that runs; this.port is left by
\* the last one.
boundPort(busy) == PreferredPort + busy
resolvedPort(busy) == PreferredPort
serverPort(busy) == PreferredPort + busy

\* Outcomes of createRuntimeFiles: both files written, or the first
\* writeFileSync throws (after runtimeFilePath was assigned).
FileOutcomes == {"ok", "throw"}

\* The part of start() after its await, without nodeExecutions.clear().
startContinueKeepingRecords(p, outcome) ==
    IF outcome = "ok"
    THEN /\ runtimeFilePath' = <<"langgraph_visualizer_runtime", ToString(now)>>
         /\ wrapperFilePath' = <<"langgraph_debug_wrapper", ToString(now)>>
         /\ state' = addLogEntry(addLogEntry(addLogEntry(
                         [state EXCEPT !.port = p,
                                       !.isActive = TRUE,
                                       !.startTime = now,
                                       !.executionState = "stopped",
                                       !.executionLog = <<>>],
                         "info", <<"Debug session started">>),
                         "info", <<"WebSocket server listening on port", ToString(p)>>),
                         "info", <<"Python path", state.pythonPath>>)
         /\ terminal' = 1
         /\ published' = TRUE
         /\ UNCHANGED notice
    ELSE /\ runtimeFilePath' = <<"langgraph_visualizer_runtime", ToString(now)>>
         /\ UNCHANGED <<wrapperFilePath, terminal>>
         /\ state' = [state EXCEPT !.port = p]
         /\ published' = FALSE
         /\ notice' = "Failed to start debug session"

\* The part of start() after its await, leaving executionState as it was.
startContinueKeepingExecutionState(p, outcome) ==
    IF outcome = "ok"
    THEN /\ runtimeFilePath' = <<"langgraph_visualizer_runtime", ToString(now)>>
         /\ wrapperFilePath' = <<"langgraph_debug_wrapper", ToString(now)>>
         /\ state' = addLogEntry(addLogEntry(addLogEntry(
                         [state EXCEPT !.port = p,
                                       !.isActive = TRUE,
                                       !.startTime = now,
                                       !.nodeExecutions = NoExecutions,
                                       !.executionLog = <<>>],
                         "info", <<"Debug session started">>),
                         "info", <<"WebSocket server listening on port", ToString(p)>>),
                         "info", <<"Python path", state.pythonPath>>)
         /\ terminal' = 1
         /\ published' = TRUE
         /\ UNCHANGED notice
    ELSE /\ runtimeFilePath' = <<"langgraph_visualizer_runtime", ToString(now)>>
         /\ UNCHANGED <<wrapperFilePath, terminal>>
         /\ state' = [state EXCEPT !.port = p]
         /\ published' = FALSE
         /\ notice' = "Failed to start debug session"

\* The part of start() after `await this.server.start()` resolved with p.
startContinue(p, outcome) ==
    IF outcome = "ok"
    THEN /\ runtimeFilePath' = <<"langgraph_visualizer_runtime", ToString(now)>>
         /\ wrapperFilePath' = <<"langgraph_debug_wrapper", ToString(now)>>
         /\ state' = addLogEntry(addLogEntry(addLogEntry(
                         [state EXCEPT !.port = p,
                                       !.isActive = TRUE,
                                       !.startTime = now,
                                       !.executionState = "stopped",
                                       !.nodeExecutions = NoExecutions,
                                       !.executionLog = <<>>],
                         "info", <<"Debug session started">>),
                         "info", <<"WebSocket server listening on port", ToString(p)>>),
                         "info", <<"Python path", state.pythonPath>>)
         /\ terminal' = 1
         /\ published' = TRUE
         /\ UNCHANGED notice
    ELSE /\ runtimeFilePath' = <<"langgraph_visualizer_runtime", ToString(now)>>
         /\ UNCHANGED <<wrapperFilePath, terminal>>
         /\ state' = [state EXCEPT !.port = p]
         /\ published' = FALSE
         /\ notice' = "Failed to start debug session"

\* An earlier DebugServer.start has asked its http server to listen and the
\* listen callback has not run yet.
awaitingListen == \E s \in ServerIds : srvSt[s] = "binding"

\* http.createServer() and new WebSocketServer({ server }) of DebugServer.start:
\* a fresh pair of objects (the least unused id), kept in this.server and
\* this.wss, and asked to listen.
createServer ==
    \E s \in ServerIds :
        /\ srvSt[s] = "free"
        /\ \A r \in ServerIds : srvSt[r] = "free" => s <= r
        /\ server' = s
        /\ wss' = s
        /\ srvSt' = [srvSt EXCEPT ![s] = "binding"]

\* DebugServer.start as start() calls it, and what follows when its promise
\* settles at once: with the transport already running it resolves with
\* this.port; if the ws module cannot be loaded it rejects; otherwise a new
\* http server is created and asked to listen.
startInactive ==
    IF isRunning
    THEN /\ \E outcome \in FileOutcomes : startContinue(port, outcome)
         /\ UNCHANGED <<srvVars, envVars, lastSend>>
    ELSE \/ /\ wsModule # "loaded"
            /\ wsModule' = "failed"
            /\ notice' = "Failed to start debug session"
            /\ UNCHANGED <<sessVars, server, wss, client, port, isRunning,
                           envVars, lastSend, published>>
         \/ /\ wsModule # "failed"
            /\ ~awaitingListen
            /\ wsModule' = "loaded"
            /\ createServer
            /\ UNCHANGED <<sessVars, client, port, isRunning, boundTo, conn,
                           pendingStops, now, obsVars>>

\* start() without its isActive check.
startUnguarded == startInactive

\* start(), up to its await: rejected with a warning while active.
start ==
    IF state.isActive
    THEN /\ notice' = "Debug session already active. Stop it first."
         /\ UNCHANGED <<sessVars, srvVars, envVars, lastSend, published>>
    ELSE startInactive

\* start() called again while an earlier start() still awaits the listen
\* callback: isActive and isRunning are both still false, so neither guard
\* stops it and DebugServer.start creates another http server and
\* WebSocketServer, which replace the ones in this.server and this.wss.
startOverlapping ==
    /\ ~state.isActive
    /\ ~isRunning
    /\ awaitingListen
    /\ wsModule = "loaded"
    /\ createServer
    /\ UNCHANGED <<sessVars, client, port, isRunning, wsModule, boundTo, conn,
                   pendingStops, now, obsVars>>

\* The listen callback of server s, after `busy` collisions (no two sockets
\* hold the same port): the transport is running and the start() that
\* created s goes on after its await.
listening(s, busy) ==
    /\ srvSt[s] = "binding"
    /\ \A r \in ServerIds \ {s} : boundTo[r] # boundPort(busy)
    /\ srvSt' = [srvSt EXCEPT ![s] = "listening"]
    /\ boundTo' = [boundTo EXCEPT ![s] = boundPort(busy)]
    /\ isRunning' = TRUE
    /\ port' = serverPort(busy)
    /\ \E outcome \in FileOutcomes : startContinue(resolvedPort(busy), outcome)
    /\ UNCHANGED <<server, wss, client, wsModule, conn, pendingStops, now, lastSend>>

\* server.on('error') with a cause other than EADDRINUSE: start() is rejected.
listenError(s) ==
    /\ srvSt[s] = "binding"
    /\ srvSt' = [srvSt EXCEPT ![s] = "free"]
    /\ notice' = "Failed to start debug session"
    /\ UNCHANGED <<sessVars, srvVars, boundTo, conn, pendingStops, now, lastSend,
                   published>>

\* ------------------------------------------------------------------ stop

\* stop()'s reset without the restore of the Time Capsule fields.
stoppedStateWithoutRestore(s) ==
    addLogEntry(createInitialState, "info", <<"Debug session stopped">>)

\* The state stop() installs after its await: the initial state with the
\* Time Capsule fields carried over, and one log entry.
stoppedState(s) ==
    addLogEntry([createInitialState EXCEPT !.timeCapsule = s.timeCapsule,
                                           !.timeCapsuleIndex = s.timeCapsuleIndex,
                                           !.timeCapsuleActive = s.timeCapsuleActive],
                "info", <<"Debug session stopped">>)

\* The part of stop() after `await this.server.stop()`.
stopContinue ==
    /\ runtimeFilePath' = NoPath
    /\ wrapperFilePath' = NoPath
    /\ terminal' = 0
    /\ state' = stoppedState(state)
    /\ notice' = "Debug session stopped"
    /\ published' = TRUE

\* wss.close() of the ws library the build resolves: it leaves the accepted
\* connections alone (ws 8 and later) or terminates each of them (before).
WssCloseModes == {"keeps", "terminates"}

\* stop() on an active session, up to its await: the stop command goes to a
\* connected peer, the tracked client is closed and forgotten, the WebSocket
\* server is closed and the http server is asked to close.
stopActive ==
    /\ pendingStops < MaxPendingStops
    /\ send("stop", NULL)
    /\ \E mode \in WssCloseModes :
           conn' = [c \in Conns |->
                       IF /\ conn[c].st = "open"
                          /\ \/ c = client
                             \/ mode = "terminates" /\ wss # 0 /\ conn[c].srv = wss
                       THEN [conn[c] EXCEPT !.st = "closing"]
                       ELSE conn[c]]
    /\ client' = 0
    /\ wss' = 0
    /\ IF server # 0
       THEN /\ srvSt' = [srvSt EXCEPT ![server] = "closing"]
            /\ pendingStops' = pendingStops + 1
            /\ UNCHANGED <<sessVars, notice, published>>
       ELSE /\ stopContinue
            /\ UNCHANGED <<srvSt, pendingStops>>
    /\ UNCHANGED <<server, port, isRunning, wsModule, boundTo, now>>

\* stop() without its isActive check.
stopUnguarded == stopActive

\* stop(): returns at once when the session is not active.
stop ==
    IF ~state.isActive
    THEN UNCHANGED <<sessVars, srvVars, envVars, obsVars>>
    ELSE stopActive

\* The callback of server.close(): http.Server emits 'close' once every
\* connection accepted through it has ended.  Each waiting stop() then runs
\* its remaining part; these run back to back and each leaves the same values.
serverClosed(s) ==
    /\ srvSt[s] = "closing"
    /\ \A c \in Conns : conn[c].st = "idle" \/ conn[c].srv # s
    /\ srvSt' = [srvSt EXCEPT ![s] = "free"]
    /\ boundTo' = [boundTo EXCEPT ![s] = 0]
    /\ server' = 0
    /\ isRunning' = FALSE
    /\ pendingStops' = 0
    /\ stopContinue
    /\ UNCHANGED <<wss, client, port, wsModule, conn, now, lastSend>>

\* 'close' of a connection whose closing handshake has begun (client.close()
\* in DebugServer.stop, or the peer's close frame): the handshake or its
\* timer ends the socket.
closeHandshake(c) ==
    /\ conn[c].st \in {"closing", "closingPeer"}
    /\ wsClose(c)

\* ------------------------------------------------------------------ specification

\* Time Capsule arrays a graph_end payload may carry, over the given step
\* nodes: step i-1 at position i.
capsuleOf(ns, after) ==
    [i \in DOMAIN ns |-> [step |-> i - 1, node |-> ns[i], state_after |-> after]]

Capsules(nodes, after) ==
    {capsuleOf(ns, after) : ns \in UNION {[1..n -> nodes] : n \in 0..MaxCapsule}}

\* graph_end payloads: with or without a remote error, with or without a
\* timeCapsule array.
GraphEndData(capsules) ==
    {[NoData EXCEPT !.error = e] : e \in {NULL, "boom"}}
    \cup {[NoData EXCEPT !.hasTimeCapsule = TRUE, !.timeCapsule = tc, !.error = e] :
              tc \in capsules, e \in {NULL, "boom"}}

\* node_start / node_end payloads.
NodeData(errors) ==
    {[NoData EXCEPT !.nodeId = n, !.nodeName = n, !.error = e] :
         n \in NodeIds, e \in errors}

\* Events whose handler reads nothing of the payload but data.node / data.error.
PlainEvents ==
    {"connected", "graph_start", "paused", "resumed", "breakpoint_hit", "error",
     "stopped", "step"}

\* The operations a caller invokes on the controller.
LocalOps ==
    \/ start
    \/ stop
    \/ pause
    \/ resume
    \/ step
    \/ \E n \in NodeIds : toggleBreakpoint(n)
    \/ activateTimeCapsule
    \/ deactivateTimeCapsule
    \/ timeCapsuleNext
    \/ timeCapsulePrevious

\* The transport's callbacks, for peers cs and `busy` port collisions.
Transport(cs, busy) ==
    \/ \E s \in ServerIds, b \in busy : listening(s, b)
    \/ \E s \in ServerIds : listenError(s)
    \/ \E s \in ServerIds : serverClosed(s)
    \/ \E c \in cs, s \in ServerIds : connection(c, s)
    \/ \E c \in cs : peerClosing(c)
    \/ \E c \in cs : wsClose(c)
    \/ \E c \in cs : receiveMalformed(c)

\* The frames peers cs send.
Events(cs, capsules, errors, values) ==
    \/ \E c \in cs, t \in PlainEvents : receive(c, t, NoData)
    \/ \E c \in cs, d \in GraphEndData(capsules) : receive(c, "graph_end", d)
    \/ \E c \in cs, d \in NodeData(errors) : receive(c, "node_start", d)
    \/ \E c \in cs, d \in NodeData(errors) : receive(c, "node_end", d)
    \/ \E c \in cs, v \in values :
           receive(c, "state_update", [NoData EXCEPT !.state = v])
    \/ \E c \in cs, t \in {"input", "output"}, v \in values :
           receive(c, t, [NoData EXCEPT !.data = v])

\* Every operation and every event, one peer, the smallest payloads.
Next ==
    \/ LocalOps
    \/ Transport({1}, {0})
    \/ Events({1}, Capsules({"a"}, NULL), {NULL}, {NULL})

Spec == Init /\ [][Next]_vars

\* Sessions, replay and completed runs: every step node, sentinels included,
\* and a state_after to project.
CapsuleNodes == {"__start__", "a", "__end__"}

\* The history of a completed run of one node: entry, the node, exit.
CompletedRun == capsuleOf(<<"__start__", "a", "__end__">>, "v")

NextCapsule ==
    \/ start
    \/ stop
    \/ activateTimeCapsule
    \/ deactivateTimeCapsule
    \/ timeCapsuleNext
    \/ timeCapsulePrevious
    \/ \E s \in ServerIds : listening(s, 0)
    \/ \E s \in ServerIds : serverClosed(s)
    \/ \E s \in ServerIds : connection(1, s)
    \/ wsClose(1)
    \/ \E d \in GraphEndData(Capsules(CapsuleNodes, "v") \cup {CompletedRun}) :
           receive(1, "graph_end", d)
    \/ receive(1, "graph_start", NoData)

SpecCapsule == Init /\ [][NextCapsule]_vars

\* Control calls and forcing events with two peers.
ForcingEvents == {"graph_start", "resumed", "paused", "breakpoint_hit", "stopped"}

NextEvents ==
    \/ start
    \/ stop
    \/ pause
    \/ resume
    \/ step
    \/ \E s \in ServerIds : listening(s, 0)
    \/ \E s \in ServerIds : serverClosed(s)
    \/ \E c \in Conns, s \in ServerIds : connection(c, s)
    \/ \E c \in Conns : peerClosing(c)
    \/ \E c \in Conns : wsClose(c)
    \/ \E c \in Conns, ty \in ForcingEvents : receive(c, ty, NoData)
    \/ \E c \in Conns, d \in GraphEndData(Capsules({"a"}, NULL)) :
           receive(c, "graph_end", d)

SpecEvents == Init /\ [][NextEvents]_vars

\* Breakpoint toggles on two node ids, with a peer that connects, starts
\* closing and disconnects.
BreakpointIds == {"a", "b"}

NextBreakpoints ==
    \/ start
    \/ stop
    \/ \E n \in BreakpointIds : toggleBreakpoint(n)
    \/ \E s \in ServerIds : listening(s, 0)
    \/ \E s \in ServerIds : serverClosed(s)
    \/ \E c \in Conns, s \in ServerIds : connection(c, s)
    \/ \E c \in Conns : peerClosing(c)
    \/ \E c \in Conns : wsClose(c)

SpecBreakpoints == Init /\ [][NextBreakpoints]_vars

\* The transport with two peers and a preferred port that may be in use:
\* start and stop, the commands of a running or paused session, and frames
\* that parse or do not.
NextTransport ==
    \/ start
    \/ stop
    \/ pause
    \/ resume
    \/ Transport(Conns, BusyCounts)
    \/ \E c \in Conns : receive(c, "graph_start", NoData)

SpecTransport == Init /\ [][NextTransport]_vars

\* Callers that do not await start(): a second start() may be invoked while
\* the first still awaits the transport.
NextStarts ==
    \/ start
    \/ startOverlapping
    \/ stop
    \/ tick
    \/ \E s \in ServerIds, b \in BusyCounts : listening(s, b)
    \/ \E s \in ServerIds : listenError(s)
    \/ \E s \in ServerIds : serverClosed(s)
    \/ \E c \in Conns, s \in ServerIds : connection(c, s)
    \/ \E c \in Conns : wsClose(c)

SpecStarts == Init /\ [][NextStarts]_vars

\* Durations a node_end payload may carry: none, zero, positive, negative.
Durations == {NoNumber, 0, 2, -2}

\* node_end payloads: with or without error (absent, empty, a message),
\* duration and output.
NodeEndData ==
    {[NoData EXCEPT !.nodeId = n, !.nodeName = n, !.error = e,
                    !.duration = du, !.output = o] :
         n \in NodeIds, e \in {NULL, "", "boom"}, du \in Durations, o \in {NULL, "v"}}

\* Node bookkeeping of a run, with a moving clock.
NextNodes ==
    \/ start
    \/ stop
    \/ tick
    \/ \E s \in ServerIds : listening(s, 0)
    \/ \E s \in ServerIds : serverClosed(s)
    \/ \E s \in ServerIds : connection(1, s)
    \/ wsClose(1)
    \/ receive(1, "graph_start", NoData)
    \/ \E d \in NodeData({NULL}) : receive(1, "node_start", d)
    \/ \E d \in NodeEndData : receive(1, "node_end", d)

SpecNodes == Init /\ [][NextNodes]_vars

\* Two nodes whose executions overlap.
TwoNodes == {"a", "b"}

\* node_start / node_end payloads for the given node ids.
NodeDataOf(ids, errors) ==
    {[NoData EXCEPT !.nodeId = n, !.nodeName = n, !.error = e] :
         n \in ids, e \in errors}

\* Runs over two nodes, with a moving clock.
NextTwoNodes ==
    \/ start
    \/ tick
    \/ \E s \in ServerIds : listening(s, 0)
    \/ \E s \in ServerIds : connection(1, s)
    \/ receive(1, "graph_start", NoData)
    \/ \E d \in NodeDataOf(TwoNodes, {NULL}) : receive(1, "node_start", d)
    \/ \E d \in NodeDataOf(TwoNodes, {NULL, "boom"}) : receive(1, "node_end", d)

SpecTwoNodes == Init /\ [][NextTwoNodes]_vars

\* Properties of the session object that hold an object (a Set, a Map, an
\* array): copying the session object copies the reference to them.
ObjectFields == {"breakpoints", "nodeExecutions", "timeCapsule", "executionLog"}

\* What a caller may do to a session object it was handed: change one of its
\* containers in place (Set.add, Map.clear, array.length = 0) or assign one of
\* its properties.
CallerEdits ==
    {[field |-> "breakpoints", value |-> state.breakpoints \cup {"a"}, inPlace |-> TRUE],
     [field |-> "nodeExecutions", value |-> NoExecutions, inPlace |-> TRUE],
     [field |-> "timeCapsule", value |-> <<>>, inPlace |-> TRUE],
     [field |-> "executionLog", value |-> <<>>, inPlace |-> TRUE],
     [field |-> "executionState", value |-> "running", inPlace |-> FALSE],
     [field |-> "breakpoints", value |-> {"a"}, inPlace |-> FALSE]}

\* getState() returns { ...this.state }: a new object whose properties hold
\* the controller's own values, references to its containers included.
getState == [live |-> FALSE, shared |-> ObjectFields]

\* _onStateChange.fire(this.state) hands subscribers the session object itself.
fired == [live |-> TRUE, shared |-> ObjectFields]

\* Whether an edit made through a handle lands on the controller's state: an
\* in-place change does when the container is the controller's, an assignment
\* when the object is.
reaches(handle, e) ==
    IF e.inPlace THEN e.field \in handle.shared ELSE handle.live

\* A caller edits what it was handed.
callerEdits(handle, e) ==
    /\ state' = IF reaches(handle, e) THEN [state EXCEPT ![e.field] = e.value] ELSE state
    /\ published' = IF reaches(handle, e) THEN FALSE ELSE published
    /\ UNCHANGED <<terminal, runtimeFilePath, wrapperFilePath, srvVars, envVars, lastSend, notice>>

\* A caller calls getState() and edits the result.
editSnapshot == \E e \in CallerEdits : callerEdits(getState, e)

\* A subscriber edits the object of the latest state-changed notification.
\* While the session is active that object is this.state: start() fired it,
\* and only stop() replaces it.
editNotified ==
    /\ state.isActive
    /\ \E e \in CallerEdits : callerEdits(fired, e)

\* A session with callers that edit what they are handed.
NextCallers ==
    \/ start
    \/ stop
    \/ \E s \in ServerIds : listening(s, 0)
    \/ \E s \in ServerIds : serverClosed(s)
    \/ \E s \in ServerIds : connection(1, s)
    \/ wsClose(1)
    \/ toggleBreakpoint("a")
    \/ receive(1, "graph_start", NoData)
    \/ \E d \in NodeData({NULL}) : receive(1, "node_start", d)
    \/ \E d \in GraphEndData(Capsules({"a"}, NULL)) : receive(1, "graph_end", d)
    \/ editSnapshot
    \/ editNotified

SpecCallers == Init /\ [][NextCallers]_vars

\* Teardown with two peers: the event loop runs a callback that is due, and a
\* closing handshake ends; a peer with an open connection owes nothing.
NextLive ==
    \/ start
    \/ stop
    \/ pause
    \/ resume
    \/ \E s \in ServerIds : listening(s, 0)
    \/ \E s \in ServerIds : serverClosed(s)
    \/ \E c \in Conns, s \in ServerIds : connection(c, s)
    \/ \E c \in Conns : peerClosing(c)
    \/ \E c \in Conns : wsClose(c)
    \/ \E c \in Conns, ty \in {"graph_start", "paused", "stopped"} : receive(c, ty, NoData)

SpecLive ==
    /\ Init
    /\ [][NextLive]_vars
    /\ \A s \in ServerIds : WF_vars(serverClosed(s))
    /\ \A c \in Conns : WF_vars(closeHandshake(c))

\* ------------------------------------------------------------------ Time Capsule claims

timeCapsuleFields == <<state.timeCapsule, state.timeCapsuleIndex, state.timeCapsuleActive>>

\* graph_end payloads that carry a timeCapsule array.
HistoryPayloads ==
    {d \in GraphEndData(Capsules({"a"}, NULL))
              \cup GraphEndData(Capsules(CapsuleNodes, "v") \cup {CompletedRun}) :
         d.hasTimeCapsule}

\* C1: in every reachable state, a non-empty timeCapsule has
\* 0 <= timeCapsuleIndex <= timeCapsule.length - 1, and timeCapsuleActive is
\* never true while timeCapsule is empty.
C1_IndexInRange ==
    /\ Len(state.timeCapsule) > 0 =>
           state.timeCapsuleIndex \in 0..(Len(state.timeCapsule) - 1)
    /\ state.timeCapsuleActive => Len(state.timeCapsule) > 0

\* Replay at the last step of a full-length history, in a session that was
\* started again after the history was recorded.
C1_Witness ==
    /\ state.isActive
    /\ state.timeCapsuleActive
    /\ Len(state.timeCapsule) = MaxCapsule
    /\ state.timeCapsuleIndex = MaxCapsule - 1
    /\ connected

\* C2: the steps of stop() (the call, and the part after its await) leave
\* timeCapsule, timeCapsuleIndex and timeCapsuleActive as they were.
C2_StopPreservesTimeCapsule ==
    [][(stop \/ \E s \in ServerIds : serverClosed(s)) => UNCHANGED timeCapsuleFields]_vars

\* stop() has just reset the session while replay was at a non-zero index.
C2_Witness ==
    /\ ~state.isActive
    /\ notice = "Debug session stopped"
    /\ state.currentNode = NULL
    /\ state.timeCapsuleActive
    /\ state.timeCapsuleIndex > 0

\* C3: a graph_end event carrying a timeCapsule array leaves timeCapsule equal
\* to that array, timeCapsuleIndex = 0 and timeCapsuleActive = FALSE.
C3_GraphEndReplacesHistory ==
    [][\A c \in Conns, d \in HistoryPayloads :
           receive(c, "graph_end", d) =>
               /\ state'.timeCapsule = d.timeCapsule
               /\ state'.timeCapsuleIndex = 0
               /\ state'.timeCapsuleActive = FALSE]_vars

\* A graph_end with an empty array has replaced a history (the projection of
\* a replayed step is still in currentNode).
C3_Witness ==
    /\ state.isActive
    /\ state.executionState = "stopped"
    /\ Len(state.timeCapsule) = 0
    /\ state.currentNode = "END"

\* C4: timeCapsule changes only in a step that processes a graph_end event
\* carrying a history array.
C4_HistoryWrittenOnlyByGraphEnd ==
    [][state'.timeCapsule # state.timeCapsule =>
           \E c \in Conns, d \in HistoryPayloads : receive(c, "graph_end", d)]_vars

\* A new run is under way (graph_start and node_start processed) while the
\* history of an earlier run is still stored.
C4_Witness ==
    /\ state.isActive
    /\ state.executionState = "running"
    /\ hasExecution(state, "a")
    /\ Len(state.timeCapsule) = MaxCapsule

\* ------------------------------------------------------------------ start / stop claims

\* C5: start() while isActive is true changes nothing but the warning shown:
\* no new transport, no new terminal, isActive and port as before.
C5_StartWhileActiveIsNoOp ==
    [][(start /\ state.isActive) =>
           UNCHANGED <<sessVars, srvVars, envVars, lastSend>>]_vars

\* start() was called on an active session.
C5_Witness ==
    /\ state.isActive
    /\ isRunning
    /\ state.executionState = "running"
    /\ notice = "Debug session already active. Stop it first."

\* What a completed teardown leaves.
TeardownComplete ==
    /\ ~state.isActive
    /\ state.executionState = "stopped"
    /\ ~isRunning
    /\ client = 0

\* C6: once stop() has been invoked on an active session (a stop() is waiting
\* for the transport to close), the teardown eventually completes: isActive
\* false, executionState stopped, transport not running, no peer tracked,
\* whatever the peers do.
C6_StopCompletes == (pendingStops > 0) ~> TeardownComplete

\* C7: stop() on a session that is not active (a stop() has completed, or
\* none was started) changes nothing at all: session state, runtime files,
\* terminal, transport, connections and notices are as before.
C7_StopIdempotent ==
    [][(stop /\ ~state.isActive) => UNCHANGED vars]_vars

\* A stop() has completed and left a stored history and the transport freed.
C7_Witness ==
    /\ ~state.isActive
    /\ notice = "Debug session stopped"
    /\ srvSt = [s \in ServerIds |-> "free"]
    /\ ~isRunning
    /\ Len(state.timeCapsule) > 0

\* ------------------------------------------------------------------ pause / resume / step claims

C9_NoOpOutsideSourceState ==
    [][/\ (pause /\ state.executionState # "running") => UNCHANGED vars
       /\ (resume /\ state.executionState # "paused") => UNCHANGED vars
       /\ (step /\ state.executionState # "paused") => UNCHANGED vars]_vars

\* A connected session in stepping, where all three calls are out of their
\* source state, with a log and a frame a call could have added to.
C9_Witness ==
    /\ state.isActive
    /\ connected
    /\ state.executionState = "stepping"
    /\ lastSend = [command |-> "step", data |-> NULL, to |-> client]

\* The frame a control call leaves on the wire.
written(command) ==
    lastSend' = [command |-> command, data |-> NULL, to |-> client]

\* The local operations other than pause, resume, step, stop and start.
otherLocalOps ==
    \/ \E n \in NodeIds : toggleBreakpoint(n)
    \/ activateTimeCapsule
    \/ deactivateTimeCapsule
    \/ timeCapsuleNext
    \/ timeCapsulePrevious

\* start(), both of its steps.
startSteps == start \/ \E s \in ServerIds, b \in BusyCounts : listening(s, b)

\* C10 as stated: pause() in running sends pause and yields paused, resume()
\* in paused sends resume and yields running, step() in paused sends step
\* and yields stepping; no local operation other than stop() changes
\* executionState.
C10_StateTable ==
    [][/\ (pause /\ state.executionState = "running") =>
              (written("pause") /\ state'.executionState = "paused")
       /\ (resume /\ state.executionState = "paused") =>
              (written("resume") /\ state'.executionState = "running")
       /\ (step /\ state.executionState = "paused") =>
              (written("step") /\ state'.executionState = "stepping")
       /\ (otherLocalOps \/ startSteps) =>
              state'.executionState = state.executionState]_vars

\* C10 as amended: the three transitions are taken whether or not a peer is
\* connected, and the frame is written exactly when the tracked peer is
\* open; of the other local operations only stop() and start() change
\* executionState, and start() only to stopped.
C10_StateTableBestEffort ==
    [][/\ (pause /\ state.executionState = "running") =>
              /\ state'.executionState = "paused"
              /\ IF client # 0 /\ conn[client].st = "open"
                 THEN written("pause") ELSE UNCHANGED lastSend
       /\ (resume /\ state.executionState = "paused") =>
              /\ state'.executionState = "running"
              /\ IF client # 0 /\ conn[client].st = "open"
                 THEN written("resume") ELSE UNCHANGED lastSend
       /\ (step /\ state.executionState = "paused") =>
              /\ state'.executionState = "stepping"
              /\ IF client # 0 /\ conn[client].st = "open"
                 THEN written("step") ELSE UNCHANGED lastSend
       /\ otherLocalOps => state'.executionState = state.executionState
       /\ startSteps => state'.executionState \in {state.executionState, "stopped"}]_vars

\* step() has acted while the peer was closing: stepping, and the last frame
\* on the wire is still the pause that went out before.
C10_Witness ==
    /\ state.executionState = "stepping"
    /\ client # 0
    /\ conn[client].st = "closingPeer"
    /\ lastSend = [command |-> "pause", data |-> NULL, to |-> client]

\* ------------------------------------------------------------------ inbound event claims

\* The type of the newest log entry of session state s.
lastLogType(s) == s.executionLog[Len(s.executionLog)].type

\* C11: an inbound event forces executionState whatever it was: graph_start
\* and resumed give running, paused and breakpoint_hit give paused, stopped
\* and graph_end give stopped; a graph_end carrying a remote error gives
\* stopped too, and its newest log entry is of type error.
C11_EventsForceExecutionState ==
    [][\A c \in Conns :
           /\ receive(c, "graph_start", NoData) => state'.executionState = "running"
           /\ receive(c, "resumed", NoData) => state'.executionState = "running"
           /\ receive(c, "paused", NoData) => state'.executionState = "paused"
           /\ receive(c, "breakpoint_hit", NoData) => state'.executionState = "paused"
           /\ receive(c, "stopped", NoData) => state'.executionState = "stopped"
           /\ \A d \in GraphEndData(Capsules({"a"}, NULL)) :
                  receive(c, "graph_end", d) =>
                      /\ state'.executionState = "stopped"
                      /\ Truthy(d.error) => lastLogType(state') = "error"]_vars

\* A graph_end with a remote error has ended a run of an active session
\* with a connected peer.
C11_Witness ==
    /\ state.isActive
    /\ connected
    /\ state.executionState = "stopped"
    /\ Len(state.executionLog) > 0
    /\ lastLogType(state) = "error"

\* C12: the 'close' of a connection while isActive is true sets
\* executionState to stopped and appends an info log entry; isActive stays
\* true, the http server, the WebSocket server and the port are as before
\* (still accepting), and the three Time Capsule fields are unchanged.
C12_DisconnectWhileActive ==
    [][\A c \in Conns :
           (wsClose(c) /\ state.isActive) =>
               /\ state'.executionState = "stopped"
               /\ state'.executionLog =
                      lastEntries(Append(state.executionLog, [type |-> "info"]))
               /\ state'.isActive
               /\ UNCHANGED <<server, wss, port, isRunning, srvSt>>
               /\ UNCHANGED timeCapsuleFields]_vars

\* The peer of a paused session with a stored history has gone: stopped, still
\* active and listening, no pending teardown.
C12_Witness ==
    /\ state.isActive
    /\ state.executionState = "stopped"
    /\ \A c \in Conns : conn[c].st = "idle"
    /\ \E s \in ServerIds : srvSt[s] = "listening"
    /\ Len(state.timeCapsule) > 0
    /\ notice = "LangGraph debug session connected!"

\* C13: the 'close' of a connection while isActive is false changes no field
\* of the session state; no log entry is added.
C13_DisconnectWhileInactive ==
    [][\A c \in Conns : (wsClose(c) /\ ~state.isActive) => UNCHANGED state]_vars

\* An inactive session whose peer moved executionState and then disconnected:
\* executionState was left as the peer set it.
C13_Witness ==
    /\ ~state.isActive
    /\ state.executionState = "paused"
    /\ \A c \in Conns : conn[c].st = "idle"

\* ------------------------------------------------------------------ Time Capsule navigation claims

\* The node shown for a stored step.
shownNode(stp) ==
    IF stp.node = "__start__" THEN "START"
    ELSE IF stp.node = "__end__" THEN "END"
    ELSE stp.node

\* C14: with a history of length N >= 1, isAtLastStep() holds exactly at
\* index N-1 and isAtFirstStep() exactly at index 0; in replay,
\* timeCapsuleNext() takes index i to min(i+1, N-1) and
\* timeCapsulePrevious() to max(i-1, 0), activateTimeCapsule() to 0; when
\* replay is not active or the history is empty, next and previous change
\* nothing.
C14_NavigationClamps ==
    /\ [](Len(state.timeCapsule) >= 1 =>
              /\ isAtLastStep <=> state.timeCapsuleIndex = Len(state.timeCapsule) - 1
              /\ isAtFirstStep <=> state.timeCapsuleIndex = 0)
    /\ [][LET N == Len(state.timeCapsule)
              i == state.timeCapsuleIndex
              replaying == state.timeCapsuleActive /\ N > 0
          IN /\ (timeCapsuleNext /\ replaying) =>
                    state'.timeCapsuleIndex = IF i + 1 < N - 1 THEN i + 1 ELSE N - 1
             /\ (timeCapsulePrevious /\ replaying) =>
                    state'.timeCapsuleIndex = IF i - 1 > 0 THEN i - 1 ELSE 0
             /\ (activateTimeCapsule /\ N > 0) => state'.timeCapsuleIndex = 0
             /\ ((timeCapsuleNext \/ timeCapsulePrevious) /\ ~replaying) =>
                    UNCHANGED vars]_vars

\* Replay of a three-step history has been moved to its last step.
C14_Witness ==
    /\ state.timeCapsuleActive
    /\ Len(state.timeCapsule) = 3
    /\ state.timeCapsuleIndex = 2
    /\ isAtLastStep
    /\ ~isAtFirstStep
    /\ state.currentNode = "END"

\* C15: activateTimeCapsule() on a non-empty history sets timeCapsuleActive,
\* timeCapsuleIndex = 0 and the projection of step 0 (currentNode its node,
\* currentState its state_after); on an empty history the session state is
\* unchanged.
C15_ActivateProjectsStepZero ==
    [][/\ (activateTimeCapsule /\ Len(state.timeCapsule) > 0) =>
              /\ state'.timeCapsuleActive
              /\ state'.timeCapsuleIndex = 0
              /\ state'.currentNode = shownNode(state.timeCapsule[1])
              /\ state'.currentState = state.timeCapsule[1].state_after
       /\ (activateTimeCapsule /\ Len(state.timeCapsule) = 0) => UNCHANGED state]_vars

\* C16: deactivateTimeCapsule() leaves timeCapsuleActive false and
\* currentNode null and the stored steps as they were, from every state;
\* getCurrentTimeCapsuleStep() then returns null.
C16_DeactivateKeepsHistory ==
    [][deactivateTimeCapsule =>
           /\ state'.timeCapsuleActive = FALSE
           /\ state'.currentNode = NULL
           /\ state'.timeCapsule = state.timeCapsule
           /\ getCurrentTimeCapsuleStep' = NoStep]_vars

\* Replay was left at a later step: the history and the index are still
\* there, the spotlight is gone.
C16_Witness ==
    /\ ~state.timeCapsuleActive
    /\ Len(state.timeCapsule) = 3
    /\ state.timeCapsuleIndex = 2
    /\ state.currentNode = NULL
    /\ state.currentState = "v"
    /\ getCurrentTimeCapsuleStep = NoStep

\* ------------------------------------------------------------------ breakpoint claims

\* C17: toggleBreakpoint(id) flips the membership of id in breakpoints and
\* of no other id, and returns true exactly when id is a member afterwards,
\* with or without a connected peer; the next toggle of the same id returns
\* the opposite value (and, flipping again, restores the set).
C17_ToggleFlipsMembership ==
    [][\A n \in BreakpointIds :
           toggleBreakpoint(n) =>
               /\ state'.breakpoints =
                      (state.breakpoints \ {n}) \cup ({n} \ state.breakpoints)
               /\ toggleBreakpointReturns(n) <=> n \in state'.breakpoints
               /\ toggleBreakpointReturns(n)' <=> ~toggleBreakpointReturns(n)]_vars

\* "a" was set while the peer was open (relayed), then "b" was set and "a"
\* removed while the peer was closing (nothing relayed).
C17_Witness ==
    /\ state.breakpoints = {"b"}
    /\ client # 0
    /\ conn[client].st = "closingPeer"
    /\ lastSend = [command |-> "set_breakpoint", data |-> "a", to |-> client]

\* ------------------------------------------------------------------ node record claims

\* C18: a node_end without error for a node that has a record (its
\* node_start was processed) leaves that record completed with
\* duration >= 0, with or without a supplied duration.
C18_CompletedWithDuration ==
    [][\A c \in Conns, d \in NodeEndData :
           (receive(c, "node_end", d) /\ hasExecution(state, d.nodeId) /\ ~Truthy(d.error)) =>
               /\ hasExecution(state', d.nodeId)
               /\ getExecution(state', d.nodeId).status = "completed"
               /\ getExecution(state', d.nodeId).duration >= 0]_vars

\* C19: a node_end with a non-empty error for a node that has a record
\* leaves the record with status error and its error field set to that
\* error, whatever output the payload carries.
C19_ErrorWins ==
    [][\A c \in Conns, d \in NodeEndData :
           (receive(c, "node_end", d) /\ hasExecution(state, d.nodeId) /\ Truthy(d.error)) =>
               /\ hasExecution(state', d.nodeId)
               /\ getExecution(state', d.nodeId).status = "error"
               /\ getExecution(state', d.nodeId).error = d.error]_vars

\* A node ended with both an output and an error, some time after it started.
C19_Witness ==
    /\ hasExecution(state, "a")
    /\ getExecution(state, "a").status = "error"
    /\ getExecution(state, "a").error = "boom"
    /\ getExecution(state, "a").output = "v"
    /\ getExecution(state, "a").endTime > getExecution(state, "a").startTime

\* ------------------------------------------------------------------ ownership claims

\* C20: callers never receive a live reference: editing anything obtained
\* from getState() or from a state-changed notification leaves the
\* controller's session state as it was.
C20_CallersCannotChangeState ==
    [][(editSnapshot \/ editNotified) => UNCHANGED state]_vars

\* ------------------------------------------------------------------ notification claims

\* C21: every operation or inbound event that changes the session state
\* ends by publishing a state-changed notification that shows the state
\* after the change.
C21_MutationsArePublished ==
    [][state' # state => published']_vars

\* ------------------------------------------------------------------ transport claims

\* C22: when the first `busy` ports from the preferred one are in use and the
\* next is free, start() ends listening on that port and resolves with it:
\* the transport's port and the session's port are the port bound.  A bind
\* failure of another kind rejects start() and no other port is tried.
C22_StartResolvesWithBoundPort ==
    [][/\ \A s \in ServerIds, b \in BusyCounts :
              listening(s, b) =>
                  /\ port' = boundPort(b)
                  /\ state'.port = boundPort(b)
       /\ \A s \in ServerIds :
              listenError(s) =>
                  /\ srvSt'[s] = "free"
                  /\ ~isRunning'
                  /\ ~state'.isActive]_vars

\* The frame a command writes when a peer is connected.
frame(command, data) == [command |-> command, data |-> data, to |-> client]

\* C23: send writes nothing and returns false when no peer is connected (none
\* tracked, or the tracked one not open); otherwise it writes the frame of
\* the command to the tracked peer and returns true.
C23_SendNeedsOpenPeer ==
    [][/\ (pause /\ state.executionState = "running") =>
              /\ sendResult <=> (client # 0 /\ conn[client].st = "open")
              /\ IF sendResult THEN lastSend' = frame("pause", NULL)
                               ELSE UNCHANGED lastSend
       /\ (resume /\ state.executionState = "paused") =>
              /\ sendResult <=> (client # 0 /\ conn[client].st = "open")
              /\ IF sendResult THEN lastSend' = frame("resume", NULL)
                               ELSE UNCHANGED lastSend
       /\ (stop /\ state.isActive) =>
              /\ sendResult <=> (client # 0 /\ conn[client].st = "open")
              /\ IF sendResult THEN lastSend' = frame("stop", NULL)
                               ELSE UNCHANGED lastSend]_vars

\* pause() took effect while the tracked peer was no longer open, and no
\* frame was ever written.
C23_Witness ==
    /\ client # 0
    /\ conn[client].st = "closingPeer"
    /\ state.executionState = "paused"
    /\ lastSend = NoFrame

\* C24: a new connection is never rejected and always becomes the tracked
\* peer; the tracked peer changes only that way or to none, so every frame
\* written goes to the connection accepted last, never to an earlier one.
C24_LastAcceptedIsTracked ==
    [][/\ \A c \in Conns, s \in ServerIds :
              connection(c, s) => (client' = c /\ conn'[c].st = "open")
       /\ client' # client =>
              \/ client' = 0
              \/ \E s \in ServerIds : connection(client', s)
       /\ lastSend' # lastSend =>
              /\ client # 0
              /\ conn[client].st = "open"
              /\ lastSend'.to = client]_vars

\* A second peer connected while the first was still open, and a frame went
\* to the second.
C24_Witness ==
    /\ client = 2
    /\ conn[1].st = "open"
    /\ conn[2].st = "open"
    /\ lastSend.to = 2

\* C25: a frame that fails to parse is dropped: it changes neither the
\* transport's state (tracked peer, running flag, port, connections) nor the
\* session's, so the frames after it are handled as before.
C25_MalformedFrameIsDropped ==
    [][\A c \in Conns : receiveMalformed(c) => UNCHANGED vars]_vars

\* A frame may arrive, parsing or not, on the tracked peer of a running session.
C25_Witness ==
    /\ client # 0
    /\ ENABLED receiveMalformed(client)
    /\ ENABLED receive(client, "graph_start", NoData)
    /\ state.isActive
    /\ state.executionState = "running"

\* ------------------------------------------------------------------ node record lifecycle claims

\* The types a log entry may have.
LogTypes == {"info", "node_start", "node_end", "state_update", "input", "output", "error"}

\* C26: a node_end for a node id without a record appends a log entry and
\* leaves nodeExecutions, currentNode, currentState and executionState as
\* they were, also after a graph_start cleared the map and while currentNode
\* holds that id.
C26_UnknownNodeEndIsLoggedOnly ==
    [][\A c \in Conns, d \in NodeEndData :
           (receive(c, "node_end", d) /\ ~hasExecution(state, d.nodeId)) =>
               /\ \E ty \in LogTypes :
                      state'.executionLog = addLogEntry(state, ty, <<>>).executionLog
               /\ state'.nodeExecutions = state.nodeExecutions
               /\ state'.currentNode = state.currentNode
               /\ state'.currentState = state.currentState
               /\ state'.executionState = state.executionState]_vars

\* C27: a record is changed once, by the node_end that matches its
\* node_start: a node_end for a record that is completed or in error leaves
\* the record as it is, and a running record stays as it is until a node_end
\* or node_start for its id arrives or the map is cleared.
C27_RecordEndsOnce ==
    [][/\ \A c \in Conns, d \in NodeEndData :
              (/\ receive(c, "node_end", d)
               /\ hasExecution(state, d.nodeId)
               /\ getExecution(state, d.nodeId).status \in {"completed", "error"}) =>
                  /\ hasExecution(state', d.nodeId)
                  /\ getExecution(state', d.nodeId) = getExecution(state, d.nodeId)
       /\ \A r \in state.nodeExecutions :
              (r.status = "running" /\ r \notin state'.nodeExecutions) =>
                  \/ state'.nodeExecutions = NoExecutions
                  \/ \E c \in Conns, d \in NodeEndData :
                         d.nodeId = r.nodeId /\ receive(c, "node_end", d)
                  \/ \E c \in Conns, d \in NodeData({NULL}) :
                         d.nodeId = r.nodeId /\ receive(c, "node_start", d)]_vars

\* C28: node_start sets currentNode to its node id and leaves a running
\* record for it, new or overwritten; node_end clears currentNode only when
\* it holds the id of the node that ended.
C28_CurrentNodeFollowsStarts ==
    [][/\ \A c \in Conns, d \in NodeDataOf(TwoNodes, {NULL}) :
              receive(c, "node_start", d) =>
                  /\ state'.currentNode = d.nodeId
                  /\ hasExecution(state', d.nodeId)
                  /\ getExecution(state', d.nodeId).status = "running"
                  /\ \A r \in state'.nodeExecutions :
                         r.nodeId # d.nodeId => r \in state.nodeExecutions
       /\ \A c \in Conns, d \in NodeDataOf(TwoNodes, {NULL, "boom"}) :
              receive(c, "node_end", d) =>
                  state'.currentNode =
                      IF state.currentNode = d.nodeId THEN NULL ELSE state.currentNode]_vars

\* After node_start(a), node_start(b), node_end(a), in that order: b is
\* still the current node.
C28_Witness ==
    /\ state.currentNode = "b"
    /\ hasExecution(state, "a")
    /\ hasExecution(state, "b")
    /\ getExecution(state, "a").status = "completed"
    /\ getExecution(state, "b").status = "running"
    /\ getExecution(state, "a").startTime < getExecution(state, "b").startTime
    /\ getExecution(state, "b").startTime < getExecution(state, "a").endTime

\* C29: a node_end that supplies a duration leaves that value as the
\* record's duration, 0 included; without one the duration is
\* endTime - startTime.
C29_SuppliedDurationIsKept ==
    [][\A c \in Conns, d \in NodeEndData :
           (receive(c, "node_end", d) /\ hasExecution(state, d.nodeId)) =>
               getExecution(state', d.nodeId).duration =
                   IF d.duration # NoNumber
                   THEN d.duration
                   ELSE now - getExecution(state, d.nodeId).startTime]_vars

\* C30: nodeExecutions is empty right after a graph_start event, whatever
\* the state before, and right after a start() that succeeds.
C30_RunsStartWithoutRecords ==
    [][/\ \A c \in Conns :
              receive(c, "graph_start", NoData) => state'.nodeExecutions = NoExecutions
       /\ (startSteps /\ ~state.isActive /\ state'.isActive) =>
              state'.nodeExecutions = NoExecutions]_vars

\* A session started after a node_start had arrived while it was not active
\* (the first start() had failed with the transport left running): the
\* node is still shown as current and has no record.
C30_Witness ==
    /\ state.isActive
    /\ state.executionState = "stopped"
    /\ state.currentNode = "a"
    /\ state.nodeExecutions = NoExecutions
    /\ state.startTime # NoNumber

\* ------------------------------------------------------------------ log claims

\* The most entries one handler appends (graph_end: the Time Capsule entry
\* and the completion entry), start() aside.
MaxAppended == 2

\* `new` is what is kept of log `old` after k entries were appended to it:
\* the entries of `old` still kept come first, in their order.
keptAfter(old, new, k) ==
    LET total == Len(old) + k
        len == IF total > MaxLog THEN MaxLog ELSE total
        keep == len - k
    IN /\ Len(new) = len
       /\ keep > 0 => SubSeq(new, 1, keep) = SubSeq(old, Len(old) - keep + 1, Len(old))

startSucceeds == startSteps /\ ~state.isActive /\ state'.isActive

\* C32: a start() that succeeds from an inactive session leaves the
\* transport running, both artifact paths set and one terminal, with
\* isActive true, executionState stopped, port the value the transport
\* returned, startTime set and nodeExecutions empty; start() never makes the
\* session running.
C32_StartLeavesStoppedActiveSession ==
    [][/\ startSucceeds =>
              /\ isRunning'
              /\ runtimeFilePath' # NoPath
              /\ wrapperFilePath' # NoPath
              /\ terminal' = 1
              /\ state'.executionState = "stopped"
              /\ state'.startTime = now
              /\ state'.nodeExecutions = NoExecutions
       /\ \A s \in ServerIds, b \in BusyCounts :
              (listening(s, b) /\ startSucceeds) => state'.port = resolvedPort(b)
       /\ (start /\ isRunning /\ startSucceeds) => state'.port = port
       /\ (startSteps /\ state'.executionState = "running") =>
              state.executionState = "running"]_vars

\* A session just started, after one port collision: the session's port is
\* the value the transport returned.
C32_Witness ==
    /\ state.isActive
    /\ state.executionState = "stopped"
    /\ state.startTime = now
    /\ state.nodeExecutions = NoExecutions
    /\ isRunning
    /\ terminal = 1
    /\ runtimeFilePath # NoPath
    /\ wrapperFilePath # NoPath
    /\ port = serverPort(1)
    /\ state.port = resolvedPort(1)

\* ------------------------------------------------------------------ replay claims

\* C33: a next() or previous() that moves the index sets currentNode to the
\* node of the step at the new index, with __start__ shown as START and
\* __end__ as END and any other id as it is, sets currentState to that step's
\* state_after, and leaves the stored steps as they are.
C33_MoveProjectsStepAtNewIndex ==
    [][((timeCapsuleNext \/ timeCapsulePrevious)
            /\ state'.timeCapsuleIndex # state.timeCapsuleIndex) =>
           /\ state'.currentNode = shownNode(state.timeCapsule[state'.timeCapsuleIndex + 1])
           /\ state'.currentState = state.timeCapsule[state'.timeCapsuleIndex + 1].state_after
           /\ state'.timeCapsule = state.timeCapsule]_vars

\* previous() moved back to the entry step of a completed run.
C33_Witness ==
    /\ state.timeCapsuleActive
    /\ state.timeCapsule = CompletedRun
    /\ state.timeCapsuleIndex = 0
    /\ state.currentNode = "START"
    /\ state.currentState = "v"

\* The Time Capsule operations.
replayOps ==
    activateTimeCapsule \/ deactivateTimeCapsule \/ timeCapsuleNext \/ timeCapsulePrevious

\* C34: the Time Capsule operations leave executionState, isActive,
\* breakpoints and nodeExecutions as they are and write no frame to the
\* peer, and what they do to the replay fields is a function of the replay
\* fields alone: the same in every executionState.
C34_ReplayIsIndependentOfRun ==
    [][/\ replayOps =>
              /\ state'.executionState = state.executionState
              /\ state'.isActive = state.isActive
              /\ state'.breakpoints = state.breakpoints
              /\ state'.nodeExecutions = state.nodeExecutions
              /\ UNCHANGED <<lastSend, srvVars, envVars>>
       /\ activateTimeCapsule =>
              IF Len(state.timeCapsule) = 0
              THEN UNCHANGED state
              ELSE state'.timeCapsuleActive /\ state'.timeCapsuleIndex = 0
       /\ deactivateTimeCapsule =>
              /\ ~state'.timeCapsuleActive
              /\ state'.timeCapsuleIndex = state.timeCapsuleIndex
              /\ state'.currentNode = NULL
       /\ timeCapsuleNext =>
              state'.timeCapsuleIndex =
                  IF /\ state.timeCapsuleActive
                     /\ state.timeCapsuleIndex < Len(state.timeCapsule) - 1
                  THEN state.timeCapsuleIndex + 1
                  ELSE state.timeCapsuleIndex
       /\ timeCapsulePrevious =>
              state'.timeCapsuleIndex =
                  IF /\ state.timeCapsuleActive
                     /\ Len(state.timeCapsule) > 0
                     /\ state.timeCapsuleIndex > 0
                  THEN state.timeCapsuleIndex - 1
                  ELSE state.timeCapsuleIndex]_vars

\* Replay is on, moved to the second stored step, in a session that is
\* stepping with a breakpoint set and a node recorded.
C34_Witness ==
    /\ state.timeCapsuleActive
    /\ state.timeCapsuleIndex = 1
    /\ state.currentNode = "a"
    /\ state.isActive
    /\ state.executionState = "stepping"
    /\ state.breakpoints # {}
    /\ state.nodeExecutions # NoExecutions

\* The http servers that hold a listening socket.
holdingSocket == {s \in ServerIds : srvSt[s] \in {"listening", "closing"}}

\* C35: two start() calls, the second invoked while the first still awaits
\* the transport, open at most one listening socket between them.
C35_OneSocketForOverlappingStarts == Cardinality(holdingSocket) <= 1

\* stop() asks a listening http server to close.
stopClosesTransport ==
    /\ stop
    /\ \E s \in ServerIds : srvSt[s] = "listening" /\ srvSt'[s] = "closing"

\* C36: a start() that failed after the transport was opened leaves no
\* listening socket behind: while the session is inactive either no server
\* listens, or a stop() called now closes the one that does.
C36_FailedStartLeavesNoSocket ==
    (~state.isActive /\ \E s \in ServerIds : srvSt[s] = "listening")
        => ENABLED stopClosesTransport

\* C37: an inactive session is stopped: nothing moves executionState away
\* from Stopped while isActive is false.
C37_InactiveIsStopped == ~state.isActive => state.executionState = "stopped"

\* C38: when the connection of a replaced peer closes while another peer is
\* tracked and open, the transport keeps tracking that peer (connected stays
\* true) and executionState is not forced to Stopped.
C38_StaleCloseKeepsTrackedPeer ==
    [][\A c \in Conns :
           (wsClose(c) /\ client # 0 /\ client # c /\ connected)
               => /\ client' = client
                  /\ connected'
                  /\ state'.executionState = state.executionState]_vars

\* C39: the breakpoints a connected peer has been told about equal the local
\* set.  A peer that has just connected has been told nothing, so when the
\* local set is not empty the connection must write set_breakpoint frames
\* to it, the last of them for one of the local breakpoints.
C39_ConnectDeliversBreakpoints ==
    [][\A c \in Conns, s \in ServerIds :
           (connection(c, s) /\ state.breakpoints # {})
               => \E n \in state.breakpoints :
                      lastSend' = [command |-> "set_breakpoint", data |-> n, to |-> c]]_vars

\* C40: whenever replay is active, timeCapsuleIndex addresses a stored step,
\* currentNode is the node of that step (sentinels as START and END) and
\* getCurrentTimeCapsuleStep() returns that step, whatever live events and
\* stop() calls came in between.
C40_ReplayShowsIndexedStep ==
    state.timeCapsuleActive =>
        /\ state.timeCapsuleIndex + 1 \in 1..Len(state.timeCapsule)
        /\ state.currentNode = shownNode(state.timeCapsule[state.timeCapsuleIndex + 1])
        /\ getCurrentTimeCapsuleStep = state.timeCapsule[state.timeCapsuleIndex + 1]

====
